---- MODULE Spec2Model ----
(***************************************************************************)
(* A model of the ray tracer of src/src/main.rs: Ray, Sphere (Intersect),  *)
(* Scene.trace and Scene.render.                                           *)
(*                                                                         *)
(* Numbers.  The program computes in f32.  The model computes in a binary  *)
(* floating-point format of the same shape and a smaller size: a finite    *)
(* value is an integer count of units of 2^-FracBits whose binary          *)
(* expansion has at most Precision significant bits (gradual underflow at  *)
(* the unit, as f32's subnormals), every operation rounds its exact result *)
(* to the nearest such value, ties to even, a result above MaxFinite is an *)
(* infinity, and NaN is a value of its own.  f32 is the instance           *)
(* Precision = 24, FracBits = 149.  The sign of zero is not modelled.      *)
(***************************************************************************)
EXTENDS Integers, Sequences, FiniteSets, TLC

Precision == 8
FracBits == 4
ExpRange == 4

Unit == 2^FracBits
MaxFinite == (2^Precision - 1) * 2^ExpRange
PInf == MaxFinite + 1
NInf == -PInf
NaN == MaxFinite + 2

IsNaN(a) == a = NaN
IsInf(a) == a = PInf \/ a = NInf
IsFinite(a) == ~IsNaN(a) /\ ~IsInf(a)
Abs(n) == IF n < 0 THEN -n ELSE n

\* The number of low bits that a magnitude q loses when it is kept to
\* Precision significant bits.
Shift(q) ==
    CHOOSE sh \in 0..(30 - Precision) :
        /\ q < 2^(Precision + sh)
        /\ sh = 0 \/ q >= 2^(Precision + sh - 1)

\* A magnitude and a sign as a value of the format: overflow gives an
\* infinity.
Signed(neg, mag) ==
    IF mag > MaxFinite THEN (IF neg THEN NInf ELSE PInf)
    ELSE (IF neg THEN -mag ELSE mag)

\* a/D, rounded to the nearest integer, ties to even, times 2^sh.
Mag(a, D, sh) ==
    LET m == a \div D
        r == a % D
    IN  (m + (IF 2 * r > D \/ (2 * r = D /\ m % 2 = 1) THEN 1 ELSE 0)) * 2^sh

RoundShifted(num, den, sh) == Signed(num < 0, Mag(Abs(num), den * 2^sh, sh))

\* num/den units (den > 0), rounded to the nearest value of the format,
\* ties to even.
RoundRat(num, den) == RoundShifted(num, den, Shift(Abs(num) \div den))

RECURSIVE ISqrtBetween(_, _, _)
ISqrtBetween(n, lo, hi) ==
    IF hi - lo <= 1 THEN lo
    ELSE IF ((lo + hi) \div 2) * ((lo + hi) \div 2) <= n
         THEN ISqrtBetween(n, (lo + hi) \div 2, hi)
         ELSE ISqrtBetween(n, lo, (lo + hi) \div 2)

ISqrt(n) == ISqrtBetween(n, 0, 2^15)

\* The root of n, which lies in [s, s + 1), rounded to a multiple of 2^sh:
\* lo is the multiple below it.
SqrtNear(n, lo, sh) ==
    IF sh = 0
    THEN (IF n > lo * lo + lo THEN lo + 1 ELSE lo)
    ELSE LET mid == lo + 2^(sh - 1)
         IN  IF n > mid * mid \/ (n = mid * mid /\ (lo \div 2^sh) % 2 = 1)
             THEN lo + 2^sh
             ELSE lo

SqrtShifted(n, s, sh) == SqrtNear(n, (s \div 2^sh) * 2^sh, sh)

SqrtFrom(n, s) == SqrtShifted(n, s, Shift(s))

\* The square root of n units^2, rounded to the nearest value of the format.
RoundSqrt(n) == SqrtFrom(n, ISqrt(n))

\* A decimal literal num/den of the source, and an integer converted
\* (`as f32`), as values of the format.
Lit(num, den) == RoundRat(num * Unit, den)
FromInt(n) == RoundRat(n * Unit, 1)

FNeg(a) == IF IsNaN(a) THEN NaN ELSE -a

FAdd(a, b) ==
    IF IsNaN(a) \/ IsNaN(b) THEN NaN
    ELSE IF IsInf(a) /\ IsInf(b) THEN (IF a = b THEN a ELSE NaN)
    ELSE IF IsInf(a) THEN a
    ELSE IF IsInf(b) THEN b
    ELSE RoundRat(a + b, 1)

FSub(a, b) == FAdd(a, FNeg(b))

FMul(a, b) ==
    IF IsNaN(a) \/ IsNaN(b) THEN NaN
    ELSE IF IsInf(a) \/ IsInf(b)
         THEN (IF a = 0 \/ b = 0 THEN NaN
               ELSE IF (a < 0) = (b < 0) THEN PInf ELSE NInf)
    ELSE RoundRat(a * b, Unit)

FDiv(a, b) ==
    IF IsNaN(a) \/ IsNaN(b) THEN NaN
    ELSE IF IsInf(a)
         THEN (IF IsInf(b) THEN NaN
               ELSE IF (a < 0) = (b < 0) THEN PInf ELSE NInf)
    ELSE IF IsInf(b) THEN 0
    ELSE IF b = 0
         THEN (IF a = 0 THEN NaN ELSE IF a < 0 THEN NInf ELSE PInf)
    ELSE RoundRat((IF b < 0 THEN -a ELSE a) * Unit, Abs(b))

FSqrt(a) ==
    IF IsNaN(a) \/ a < 0 THEN NaN
    ELSE IF a = PInf THEN PInf
    ELSE RoundSqrt(a * Unit)

\* f32::min and f32::max: a NaN operand is ignored.
FMin(a, b) ==
    IF IsNaN(a) THEN b ELSE IF IsNaN(b) THEN a ELSE IF a < b THEN a ELSE b

FMax(a, b) ==
    IF IsNaN(a) THEN b ELSE IF IsNaN(b) THEN a ELSE IF a > b THEN a ELSE b

\* The comparisons of f32: false when an operand is NaN.
FLt(a, b) == ~IsNaN(a) /\ ~IsNaN(b) /\ a < b
FGt(a, b) == ~IsNaN(a) /\ ~IsNaN(b) /\ a > b
FEq(a, b) == ~IsNaN(a) /\ ~IsNaN(b) /\ a = b


(***************************************************************************)
(* cgmath's vectors, points and matrices, as the program uses them.  A     *)
(* Vector3 or Point3 is <<x, y, z>>, a Vector4 is <<x, y, z, w>> and a     *)
(* Matrix4 is its four rows.                                               *)
(***************************************************************************)
vec3(x, y, z) == <<x, y, z>>

\* v + w, v - w, v * w (component-wise) and v * s, on Vector3 and Point3.
VAdd(v, w) == <<FAdd(v[1], w[1]), FAdd(v[2], w[2]), FAdd(v[3], w[3])>>
VSub(v, w) == <<FSub(v[1], w[1]), FSub(v[2], w[2]), FSub(v[3], w[3])>>
VMul(v, w) == <<FMul(v[1], w[1]), FMul(v[2], w[2]), FMul(v[3], w[3])>>
VScale(v, s) == <<FMul(v[1], s), FMul(v[2], s), FMul(v[3], s)>>

Dot(v, w) == FAdd(FAdd(FMul(v[1], w[1]), FMul(v[2], w[2])), FMul(v[3], w[3]))

\* normalize(): the vector times the reciprocal of its length.
Normalize(v) == VScale(v, FDiv(Unit, FSqrt(Dot(v, v))))

VEq(v, w) == FEq(v[1], w[1]) /\ FEq(v[2], w[2]) /\ FEq(v[3], w[3])

Dot4(v, w) ==
    FAdd(FAdd(FAdd(FMul(v[1], w[1]), FMul(v[2], w[2])), FMul(v[3], w[3])),
         FMul(v[4], w[4]))

Sub4(v, w) ==
    <<FSub(v[1], w[1]), FSub(v[2], w[2]), FSub(v[3], w[3]), FSub(v[4], w[4])>>

DivS4(v, s) == <<FDiv(v[1], s), FDiv(v[2], s), FDiv(v[3], s), FDiv(v[4], s)>>

Normalize4(v) ==
    LET k == FDiv(Unit, FSqrt(Dot4(v, v)))
    IN  <<FMul(v[1], k), FMul(v[2], k), FMul(v[3], k), FMul(v[4], k)>>

Truncate(v) == <<v[1], v[2], v[3]>>

MulMV(m, v) == <<Dot4(m[1], v), Dot4(m[2], v), Dot4(m[3], v), Dot4(m[4], v)>>

Det3(a) ==
    FAdd(FSub(FMul(a[1][1], FSub(FMul(a[2][2], a[3][3]), FMul(a[2][3], a[3][2]))),
              FMul(a[1][2], FSub(FMul(a[2][1], a[3][3]), FMul(a[2][3], a[3][1])))),
         FMul(a[1][3], FSub(FMul(a[2][1], a[3][2]), FMul(a[2][2], a[3][1]))))

\* m without row i and column j.
Minor(m, i, j) ==
    LET Skip(k, n) == IF n < k THEN n ELSE n + 1
    IN  [r \in 1..3 |-> [c \in 1..3 |-> m[Skip(i, r)][Skip(j, c)]]]

Determinant(m) ==
    FSub(FAdd(FSub(FMul(m[1][1], Det3(Minor(m, 1, 1))),
                   FMul(m[1][2], Det3(Minor(m, 1, 2)))),
              FMul(m[1][3], Det3(Minor(m, 1, 3)))),
         FMul(m[1][4], Det3(Minor(m, 1, 4))))

NoMatrix == [some |-> FALSE, m |-> <<>>]

\* The cofactor of (j, i) over the determinant.
Cofactor(m, i, j, inv_det) ==
    FMul(FMul(Det3(Minor(m, j, i)), IF (i + j) % 2 = 1 THEN -Unit ELSE Unit),
         inv_det)

Cofactors(m, inv_det) ==
    [i \in 1..4 |-> [j \in 1..4 |-> Cofactor(m, i, j, inv_det)]]

\* An inversion that does not look at the determinant.
InvertUnchecked(m, det) ==
    [some |-> TRUE, m |-> Cofactors(m, FDiv(Unit, det))]

InvertWith(m, det) ==
    IF FEq(det, 0) THEN NoMatrix
    ELSE [some |-> TRUE, m |-> Cofactors(m, FDiv(Unit, det))]

\* Matrix4::invert(): None when the determinant is zero, else the
\* cofactors, transposed, times the reciprocal of the determinant.
Invert(m) == InvertWith(m, Determinant(m))

(***************************************************************************)
(* Ray                                                                     *)
(***************************************************************************)
Ray(point, direction) == [point |-> point, direction |-> direction]

RayNew(point, direction) == Ray(point, Normalize(direction))

point_at(ray, t) == VAdd(ray.point, VScale(ray.direction, t))

NoRay == [some |-> FALSE, ray |-> Ray(<<0, 0, 0>>, <<0, 0, 0>>)]

\* through_screen, lines 39-40 and 47-48: inverse * point, over its w.
Unproject(inverse, point) == DivS4(MulMV(inverse, point), MulMV(inverse, point)[4])

\* through_screen, lines 49-51
RayBetween(world_point0, world_point1) ==
    Ray(Truncate(world_point0),
        Truncate(Normalize4(Sub4(world_point1, world_point0))))

\* through_screen, lines 33-51, on the screen point and the inverse.
ScreenRay(sx, sy, inverse) ==
    IF ~inverse.some THEN NoRay
    ELSE [some |-> TRUE,
          ray |-> RayBetween(Unproject(inverse.m, <<sx, sy, -Unit, Unit>>),
                             Unproject(inverse.m, <<sx, sy, Unit, Unit>>))]

\* Ray::through_screen.  invert().unwrap() panics on None: the result is
\* then no ray ([some |-> FALSE]), and the caller stops there.
through_screen(x, y, width, height, camera_transform) ==
    ScreenRay(FSub(FMul(Lit(2, 1), FDiv(FAdd(x, Lit(1, 2)), width)), Unit),
              FNeg(FSub(FMul(Lit(2, 1), FDiv(FAdd(y, Lit(1, 2)), height)), Unit)),
              Invert(camera_transform))

(***************************************************************************)
(* Sphere                                                                  *)
(***************************************************************************)
Sphere(center, radius, color) ==
    [center |-> center, radius |-> radius, color |-> color]

\* #[derive(PartialEq)]: field by field, with f32's equality.
SphereEq(a, b) ==
    VEq(a.center, b.center) /\ FEq(a.radius, b.radius) /\ VEq(a.color, b.color)

None == [some |-> FALSE, t |-> 0]
Some(t) == [some |-> TRUE, t |-> t]

\* Sphere::intersect
\* An intersection that returns the far root, v + d.
intersectFarRoot(self, ray) ==
    LET l  == VSub(self.center, ray.point)
        v  == Dot(l, ray.direction)
        d2 == FSub(Dot(l, l), FMul(v, v))
        r2 == FMul(self.radius, self.radius)
        d  == FSqrt(FSub(r2, d2))
    IN  IF FLt(v, 0) THEN None
        ELSE IF FGt(d2, r2) THEN None
        ELSE Some(FAdd(v, d))

\* An intersection that does not test d2 > r2.
intersectNoMissTest(self, ray) ==
    LET l  == VSub(self.center, ray.point)
        v  == Dot(l, ray.direction)
        d2 == FSub(Dot(l, l), FMul(v, v))
        r2 == FMul(self.radius, self.radius)
        d  == FSqrt(FSub(r2, d2))
    IN  IF FLt(v, 0) THEN None
        ELSE Some(FSub(v, FMin(d, FAdd(v, d))))

intersect(self, ray) ==
    LET l  == VSub(self.center, ray.point)
        v  == Dot(l, ray.direction)
        d2 == FSub(Dot(l, l), FMul(v, v))
        r2 == FMul(self.radius, self.radius)
        d  == FSqrt(FSub(r2, d2))
    IN  IF FLt(v, 0) THEN None
        ELSE IF FGt(d2, r2) THEN None
        ELSE Some(FSub(v, FMin(d, FAdd(v, d))))

(***************************************************************************)
(* Scene                                                                   *)
(***************************************************************************)
Scene(camera, spheres, lights, ambient) ==
    [camera |-> camera, spheres |-> spheres, lights |-> lights,
     ambient |-> ambient]

\* A value returned by trace, with the line of the return statement that
\* returned it.
Ret(color, line) == [color |-> color, ret |-> line]

\* A match that also replaces the closest sphere on an equal t.
CloserOrEqual(best, i, hit) ==
    IF hit.some /\ (FLt(hit.t, best.min_t) \/ FEq(hit.t, best.min_t))
    THEN [closest |-> i, min_t |-> hit.t]
    ELSE best

\* trace, lines 178-184: the match on one sphere's intersection.  best is
\* closest_sphere, as its index in spheres (0 for None), with min_t.
Closer(best, i, hit) ==
    IF hit.some /\ FLt(hit.t, best.min_t)
    THEN [closest |-> i, min_t |-> hit.t]
    ELSE best

\* trace, lines 177-185: the loop over the spheres, from the i-th on.
RECURSIVE ClosestScan(_, _, _, _)
ClosestScan(spheres, ray, i, best) ==
    IF i > Len(spheres) THEN best
    ELSE ClosestScan(spheres, ray, i + 1,
                     Closer(best, i, intersect(spheres[i], ray)))

\* A shadow scan that does not skip the spheres equal to closest_sphere.
InShadowAnySphere(spheres, closest_sphere, light_ray) ==
    \E i \in 1..Len(spheres) : intersect(spheres[i], light_ray).some

\* trace, lines 194-200: whether the scan of the spheres finds one, other
\* than closest_sphere by ==, that the light ray intersects.
InShadow(spheres, closest_sphere, light_ray) ==
    \E i \in 1..Len(spheres) :
        /\ ~SphereEq(spheres[i], closest_sphere)
        /\ intersect(spheres[i], light_ray).some

\* A loop body whose Lambert term is not clamped at 0.
LightBodyNoClamp(self, ray, closest_sphere, min_t, light) ==
    LET intersection_point == point_at(ray, min_t)
        light_direction == Normalize(VSub(light.center, intersection_point))
        light_ray == RayNew(intersection_point, light_direction)
    IN  IF InShadow(self.spheres, closest_sphere, light_ray)
        THEN Ret(VMul(closest_sphere.color, self.ambient), 198)
        ELSE LET lambert ==
                     Dot(Normalize(VSub(intersection_point,
                                        closest_sphere.center)),
                         light_direction)
                 diffuse == vec3(Lit(5, 10), Lit(4, 10), Lit(5, 10))
                 illumination == VAdd(self.ambient, VScale(diffuse, lambert))
             IN  Ret(VMul(closest_sphere.color, illumination), 205)

\* trace, lines 191-205: the body of the loop over the lights.  Every path
\* through it returns.
LightBody(self, ray, closest_sphere, min_t, light) ==
    LET intersection_point == point_at(ray, min_t)
        light_direction == Normalize(VSub(light.center, intersection_point))
        light_ray == RayNew(intersection_point, light_direction)
    IN  IF InShadow(self.spheres, closest_sphere, light_ray)
        THEN Ret(VMul(closest_sphere.color, self.ambient), 198)
        ELSE LET lambert ==
                     FMax(Dot(Normalize(VSub(intersection_point,
                                             closest_sphere.center)),
                              light_direction), 0)
                 diffuse == vec3(Lit(5, 10), Lit(4, 10), Lit(5, 10))
                 illumination == VAdd(self.ambient, VScale(diffuse, lambert))
             IN  Ret(VMul(closest_sphere.color, illumination), 205)

\* A loop over the lights whose body returns for the last light.
LightLoopLastLight(self, ray, closest_sphere, min_t) ==
    IF Len(self.lights) = 0 THEN Ret(self.ambient, 207)
    ELSE LightBody(self, ray, closest_sphere, min_t,
                   self.lights[Len(self.lights)])

\* A fall-through that shades the hit sphere by the ambient.
LightLoopShadedFallThrough(self, ray, closest_sphere, min_t) ==
    IF Len(self.lights) = 0
    THEN Ret(VMul(closest_sphere.color, self.ambient), 207)
    ELSE LightBody(self, ray, closest_sphere, min_t, self.lights[1])

\* trace, lines 190-207: the loop over the lights.  Its body returns in
\* the first iteration; with no light the loop falls through to line 207.
LightLoop(self, ray, closest_sphere, min_t) ==
    IF Len(self.lights) = 0 THEN Ret(self.ambient, 207)
    ELSE LightBody(self, ray, closest_sphere, min_t, self.lights[1])

\* trace, lines 186-207, after the scan.
Shade(self, ray, best) ==
    IF best.closest = 0 THEN Ret(self.ambient, 186)
    ELSE LightLoop(self, ray, self.spheres[best.closest], best.min_t)

\* Scene::trace
trace(self, ray) ==
    Shade(self, ray,
          ClosestScan(self.spheres, ray, 1, [closest |-> 0, min_t |-> PInf]))

\* A cast that truncates and wraps modulo 256.
AsU8Wrapping(a) ==
    IF IsNaN(a) THEN 0
    ELSE IF a < 0 THEN (0 - ((0 - a) \div Unit)) % 256
    ELSE (a \div Unit) % 256

\* `as u8` on an f32: truncation toward zero, saturating at 0 and 255;
\* NaN gives 0.
AsU8(a) ==
    IF IsNaN(a) \/ a <= 0 THEN 0
    ELSE IF a \div Unit > 255 THEN 255
    ELSE a \div Unit

\* render, lines 215-218: the Rgb written for a traced colour.
Rgb(color) ==
    <<AsU8(FMul(FMin(color[1], Lit(1, 1)), Lit(255, 1))),
      AsU8(FMul(FMin(color[2], Lit(1, 1)), Lit(255, 1))),
      AsU8(FMul(FMin(color[3], Lit(1, 1)), Lit(255, 1)))>>

\* Loops that do not restart x at the end of a row.
NextPixelNoRestart(x, y, width) ==
    IF x + 1 < width THEN <<x + 1, y>> ELSE <<x, y + 1>>

\* render, lines 211-212: the pixel the two loops visit after (x, y).
NextPixel(x, y, width) == IF x + 1 < width THEN <<x + 1, y>> ELSE <<0, y + 1>>

(***************************************************************************)
(* The inputs the model runs the program on.                               *)
(***************************************************************************)
MaxDim == 2
MaxSpheres == 2
MaxLights == 2

\* <<a/2, b/2, c/2>>
Halves(a, b, c) == <<Lit(a, 2), Lit(b, 2), Lit(c, 2)>>

SeqsUpTo(S, n) == UNION {[1..k -> S] : k \in 0..n}
\* Those of them that hold no element twice.
DistinctSeqsUpTo(S, n) ==
    {s \in SeqsUpTo(S, n) : \A i, j \in DOMAIN s : s[i] = s[j] => i = j}

Identity ==
    <<<<Unit, 0, 0, 0>>, <<0, Unit, 0, 0>>, <<0, 0, Unit, 0>>, <<0, 0, 0, Unit>>>>
\* A projective transform: w depends on z.
Projective ==
    <<<<Unit, 0, 0, 0>>, <<0, Unit, 0, 0>>, <<0, 0, Unit, 0>>,
      <<0, 0, Lit(1, 2), Unit>>>>
\* Two transforms without an inverse: a zero row, and two equal rows.
ZeroRow ==
    <<<<Unit, 0, 0, 0>>, <<0, Unit, 0, 0>>, <<0, 0, 0, 0>>, <<0, 0, 0, Unit>>>>
EqualRows ==
    <<<<Unit, Unit, 0, 0>>, <<Unit, Unit, 0, 0>>, <<0, 0, Unit, 0>>,
      <<0, 0, 0, Unit>>>>
SingularCameras == {ZeroRow, EqualRows}
Cameras == {Identity, Projective} \cup SingularCameras

\* The scenes rendered: two with spheres and a light, and the scenes of
\* no sphere, where trace returns the ambient, with an ambient of every
\* kind of channel value: below 0, within [0, 1], above 1, at the ends.
ChannelValues ==
    {Lit(-200, 1), Lit(-1, 1), -1, 0, 1, Lit(3, 10), Lit(1, 2), Unit - 1, Unit,
     Unit + 1, Lit(2, 1), Lit(255, 1)}
RenderScenes ==
    { [spheres |-> <<Sphere(Halves(0, 0, 4), Lit(1, 1),
                            <<Lit(2, 1), Lit(-1, 1), Lit(1, 2)>>)>>,
       lights  |-> <<Sphere(Halves(0, 8, -4), Lit(1, 1), Halves(2, 2, 2))>>,
       ambient |-> Halves(1, 1, 1)],
      [spheres |-> <<Sphere(Halves(1, 1, 4), Lit(1, 1),
                            <<Lit(3, 4), Lit(1, 4), Lit(3, 1)>>),
                     Sphere(Halves(1, 4, 2), Lit(1, 1), Halves(2, 2, 2))>>,
       lights  |-> <<Sphere(Halves(1, 8, 0), Lit(1, 1), Halves(2, 2, 2))>>,
       ambient |-> <<Lit(3, 10), Lit(7, 10), Lit(2, 5)>>] }
    \cup {[spheres |-> <<>>, lights |-> <<>>, ambient |-> <<v, v, v>>] :
              v \in ChannelValues}

\* The spheres, lights, rays and ambients trace is called on.  SphereA and
\* SphereA2 differ in colour only; SphereB lies between SphereA and
\* LightSide; LightBehind is behind SphereA and LightOnSurface on it, seen
\* along RayAxis.  RayInside starts inside SphereA and runs on to SphereB.
SphereA == Sphere(Halves(0, 0, 0), Lit(1, 1), <<Lit(1, 1), Lit(1, 2), Lit(2, 1)>>)
SphereA2 == Sphere(Halves(0, 0, 0), Lit(1, 1), <<Lit(1, 2), Lit(1, 1), Lit(1, 4)>>)
SphereB == Sphere(Halves(-5, -3, 0), Lit(1, 1), Halves(1, 2, 1))
TraceSpheres == {SphereA, SphereA2, SphereB}

LightSide == Sphere(Halves(-8, -6, 0), Lit(1, 1), Halves(2, 2, 2))
LightBehind == Sphere(Halves(8, 0, 0), Lit(1, 1), Halves(2, 2, 2))
LightOnSurface == Sphere(Halves(-2, 0, 0), Lit(1, 1), Halves(2, 2, 2))
TraceLights == {LightSide, LightBehind, LightOnSurface}

RayAxis == RayNew(Halves(-8, 0, 0), Halves(2, 0, 0))
RayInside == RayNew(Halves(1, 0, 0), Halves(-6, -3, 0))
RayOblique == RayNew(Halves(-8, 0, 0), Halves(8, 1, 0))
RayAway == RayNew(Halves(-8, 0, 0), Halves(0, 2, 0))
RayFromLight == RayNew(Halves(-8, -6, 0), Halves(8, 6, 0))
TraceRays == {RayAxis, RayInside, RayOblique, RayAway, RayFromLight}

Ambients == {<<Lit(3, 10), Lit(3, 10), Lit(3, 10)>>,
             <<Lit(1, 2), Lit(1, 4), Lit(1, 1)>>}

\* The spheres and rays intersect is called on.  A radius is a count of
\* units (the smallest values of the format) or a literal; the largest has
\* a square above MaxFinite.  A direction is a normalized vector: the
\* normalized zero vector is all NaN.
Radii == {1, 3, 5, 7, Lit(1, 2), Lit(1, 1), Lit(3, 1), Lit(7, 2), Lit(15, 1),
          Lit(200, 1)}
Centers == {Halves(0, 0, 0), Halves(6, 0, 0), Halves(2, 4, -2)}
Origins == Centers \cup {Halves(-8, 0, 0), Halves(1, 0, 0)}
Directions ==
    {Normalize(d) : d \in {Halves(2, 0, 0), Halves(-2, 0, 0), Halves(2, 2, 0),
                           Halves(-1, 2, 2), Halves(0, 0, 0)}}

(***************************************************************************)
(* State.  render: the scene, the image size, the position in render (pc,  *)
(* x, y), the image buffer, the put_pixel calls made so far and the output *)
(* file.  trace and intersect, called on their own: the arguments, the     *)
(* position (tpc, ipc) and the value returned.                             *)
(***************************************************************************)
VARIABLES scene, width, height, pc, x, y, img, writes, file,
          tscene, tray, tpc, tresult,
          isphere, iray, ipc, iresult

rvars == <<scene, width, height, pc, x, y, img, writes, file>>
tvars == <<tscene, tray, tpc, tresult>>
ivars == <<isphere, iray, ipc, iresult>>
vars == <<rvars, tvars, ivars>>

EmptyScene == Scene(Identity, <<>>, <<>>, <<0, 0, 0>>)
ZeroRay == Ray(<<0, 0, 0>>, <<0, 0, 0>>)

RenderIdle ==
    /\ scene = EmptyScene /\ width = 0 /\ height = 0 /\ pc = "idle"
    /\ x = 0 /\ y = 0 /\ img = <<>> /\ writes = <<>> /\ file = "none"
TraceIdle ==
    /\ tscene = EmptyScene /\ tray = ZeroRay /\ tpc = "idle"
    /\ tresult = Ret(<<0, 0, 0>>, 0)
IntersectIdle ==
    /\ isphere = Sphere(<<0, 0, 0>>, 0, <<0, 0, 0>>) /\ iray = ZeroRay
    /\ ipc = "idle" /\ iresult = None

(***************************************************************************)
(* Scene::render                                                           *)
(***************************************************************************)
\* render is called on a built scene: line 210 has made the image buffer.
Init ==
    /\ \E c \in Cameras, s \in RenderScenes :
           scene = Scene(c, s.spheres, s.lights, s.ambient)
    /\ width \in 0..MaxDim
    /\ height \in 0..MaxDim
    /\ pc = "loop"
    /\ x = 0 /\ y = 0
    /\ img = [p \in (0..(width - 1)) \X (0..(height - 1)) |-> <<0, 0, 0>>]
    /\ writes = <<>>
    /\ file = "none"
    /\ TraceIdle /\ IntersectIdle

\* Lines 215-218 with the loops' step: put_pixel of a traced colour at
\* (x, y), and on to the next pixel.
PutPixel(color) ==
    /\ img' = [img EXCEPT ![<<x, y>>] = Rgb(color)]
    /\ writes' = Append(writes, [x |-> x, y |-> y, color |-> color,
                                 rgb |-> Rgb(color)])
    /\ x' = NextPixel(x, y, width)[1]
    /\ y' = NextPixel(x, y, width)[2]
    /\ pc' = pc

\* Lines 213-218, one pass through the body of the inner loop: the ray,
\* the trace, the put_pixel.  The unwrap in through_screen panics when the
\* camera has no inverse.
PixelWith(got) ==
    IF ~got.some
    THEN pc' = "panicked" /\ UNCHANGED <<x, y, img, writes>>
    ELSE PutPixel(trace(scene, got.ray).color)

Pixel ==
    /\ pc = "loop" /\ y < height /\ x < width
    /\ PixelWith(through_screen(FromInt(x), FromInt(y), FromInt(width),
                                FromInt(height), scene.camera))
    /\ UNCHANGED <<scene, width, height, file, tvars, ivars>>

\* Line 222, after the loops: File::create(..).unwrap().
CreateFile ==
    /\ pc = "loop" /\ (y >= height \/ width = 0)
    /\ \/ file' = "created" /\ pc' = "save"
       \/ file' = file /\ pc' = "panicked"
    /\ UNCHANGED <<scene, width, height, x, y, img, writes, tvars, ivars>>

\* Line 225: save(..).unwrap().
Save ==
    /\ pc = "save"
    /\ \/ file' = "saved" /\ pc' = "done"
       \/ file' = file /\ pc' = "panicked"
    /\ UNCHANGED <<scene, width, height, x, y, img, writes, tvars, ivars>>

Next == Pixel \/ CreateFile \/ Save

Spec == Init /\ [][Next]_vars

(***************************************************************************)
(* Scene::trace, called on its own on a scene and a ray.                   *)
(***************************************************************************)
InitTrace ==
    /\ \E sp \in SeqsUpTo(TraceSpheres, MaxSpheres),
          li \in DistinctSeqsUpTo(TraceLights, MaxLights),
          am \in Ambients :
           tscene = Scene(Identity, sp, li, am)
    /\ tray \in TraceRays
    /\ tpc = "call"
    /\ tresult = Ret(<<0, 0, 0>>, 0)
    /\ RenderIdle /\ IntersectIdle

TraceCall ==
    /\ tpc = "call"
    /\ tresult' = trace(tscene, tray)
    /\ tpc' = "done"
    /\ UNCHANGED <<tscene, tray, rvars, ivars>>

NextTrace == TraceCall

SpecTrace == InitTrace /\ [][NextTrace]_vars

(***************************************************************************)
(* Sphere::intersect, called on its own on a sphere and a ray.             *)
(***************************************************************************)
InitIntersect ==
    /\ \E c \in Centers, r \in Radii : isphere = Sphere(c, r, <<0, 0, 0>>)
    /\ \E o \in Origins, d \in Directions : iray = Ray(o, d)
    /\ ipc = "call"
    /\ iresult = None
    /\ RenderIdle /\ TraceIdle

IntersectCall ==
    /\ ipc = "call"
    /\ iresult' = intersect(isphere, iray)
    /\ ipc' = "done"
    /\ UNCHANGED <<isphere, iray, rvars, tvars>>

NextIntersect == IntersectCall

SpecIntersect == InitIntersect /\ [][NextIntersect]_vars

(***************************************************************************)
(* Sphere::intersect: the claims.                                          *)
(***************************************************************************)
\* The quantities of the intersection test, for the call in the state.
CenterOffset == VSub(isphere.center, iray.point)
Along == Dot(CenterOffset, iray.direction)
PerpSquared == FSub(Dot(CenterOffset, CenterOffset), FMul(Along, Along))
RadiusSquared == FMul(isphere.radius, isphere.radius)
HalfChord == FSqrt(FSub(RadiusSquared, PerpSquared))

OriginAtCenter == VEq(iray.point, isphere.center)
FiniteDirection == \A k \in 1..3 : IsFinite(iray.direction[k])
\* radius * radius neither overflows nor falls below the normal range of
\* the format.
RadiusSquaredNormal ==
    RadiusSquared >= 2^(Precision - 1) /\ RadiusSquared <= MaxFinite

\* C7, as stated: a ray from the centre of a sphere with radius > 0 gets a
\* hit at distance radius, the exit point, whatever its direction.
C7_HitAtRadius ==
    (ipc = "done" /\ OriginAtCenter /\ isphere.radius > 0)
        => (iresult.some /\ iresult.t = isphere.radius)

\* C7, amended: a ray from the centre of a sphere with radius > 0, with a
\* finite direction, gets a hit at distance -radius, the point of the
\* sphere behind the origin, when radius * radius is a normal number.
C7_HitAtMinusRadius ==
    (ipc = "done" /\ OriginAtCenter /\ isphere.radius > 0
        /\ FiniteDirection /\ RadiusSquaredNormal)
        => (iresult.some /\ iresult.t = -isphere.radius)

C7_Witness ==
    /\ ipc = "done" /\ OriginAtCenter /\ isphere.radius > 0
    /\ FiniteDirection /\ RadiusSquaredNormal
    /\ iresult.some /\ iresult.t < 0

\* C8: intersect returns no hit exactly when v < 0 or d2 > radius^2;
\* otherwise it returns v - min(d, v + d), which is min(v - d, v + d) and
\* v - d, the nearer root, negative or not.
C8_NearerRoot ==
    ipc = "done" =>
        /\ iresult.some <=> ~(FLt(Along, 0) \/ FGt(PerpSquared, RadiusSquared))
        /\ iresult.some =>
            /\ iresult.t = FSub(Along, FMin(HalfChord, FAdd(Along, HalfChord)))
            /\ iresult.t = FMin(FSub(Along, HalfChord), FAdd(Along, HalfChord))
            /\ iresult.t = FSub(Along, HalfChord)

\* The origin is inside the sphere, the centre ahead: the root returned is
\* negative.
C8_Witness ==
    /\ ipc = "done" /\ iresult.some /\ IsFinite(iresult.t) /\ iresult.t < 0
    /\ ~OriginAtCenter
    /\ FLt(Dot(CenterOffset, CenterOffset), RadiusSquared)

(***************************************************************************)
(* Scene::trace: the claims.                                               *)
(***************************************************************************)
\* For the call in the state: the spheres the ray hits and where, the
\* sphere the scan chooses, the point hit, and the ray from it toward the
\* first light.
Hits == {i \in 1..Len(tscene.spheres) : intersect(tscene.spheres[i], tray).some}
HitT(i) == intersect(tscene.spheres[i], tray).t
Best == ClosestScan(tscene.spheres, tray, 1, [closest |-> 0, min_t |-> PInf])
HitSphere == tscene.spheres[Best.closest]
HitPoint == point_at(tray, Best.min_t)
ToLight == Normalize(VSub(tscene.lights[1].center, HitPoint))
ShadowRay == RayNew(HitPoint, ToLight)
Lambert == Dot(Normalize(VSub(HitPoint, HitSphere.center)), ToLight)
Diffuse == <<Lit(5, 10), Lit(4, 10), Lit(5, 10)>>
\* The spheres on the shadow ray, and those of them that differ from the
\* sphere hit in centre, radius or colour.
OnShadowRay ==
    {i \in 1..Len(tscene.spheres) : intersect(tscene.spheres[i], ShadowRay).some}
Occluders == {i \in OnShadowRay : ~SphereEq(tscene.spheres[i], HitSphere)}
Shaded == tpc = "done" /\ Best.closest # 0 /\ Len(tscene.lights) >= 1

\* C3: trace uses the first light only: with a sphere hit and at least one
\* light it returns from the body of the loop's first iteration, and what
\* it returns is what it returns for the scene that has the same spheres
\* and ambient and the first light alone, whatever lights follow.
C3_FirstLightOnly ==
    (tpc = "done" /\ Len(tscene.lights) >= 1) =>
        /\ Best.closest # 0 => tresult.ret \in {198, 205}
        /\ trace([tscene EXCEPT !.lights = <<tscene.lights[1]>>], tray)
               = tresult

\* A second light that differs from the first and, put first, gives
\* another colour.
C3_Witness ==
    /\ tpc = "done" /\ Len(tscene.lights) >= 2 /\ Best.closest # 0
    /\ tscene.lights[2] # tscene.lights[1]
    /\ trace([tscene EXCEPT !.lights = Tail(tscene.lights)], tray).color
           # tresult.color

\* C4: with a sphere hit and a light, when a sphere that differs from the
\* sphere hit (in centre, radius or colour) intersects the shadow ray to
\* the first light, trace returns hit_color * ambient from the shadow
\* branch; the sphere hit and its equals do not count: with no other
\* sphere on the shadow ray trace returns from the lit branch.
C4_Shadow ==
    Shaded =>
        IF Occluders # {}
        THEN tresult = Ret(VMul(HitSphere.color, tscene.ambient), 198)
        ELSE tresult.ret = 205

\* In shadow of another sphere, where the lit branch gives another colour.
C4_Witness ==
    /\ Shaded /\ Occluders # {}
    /\ tresult.color = VMul(HitSphere.color, tscene.ambient)
    /\ tresult.color #
           VMul(HitSphere.color,
                VAdd(tscene.ambient, VScale(Diffuse, FMax(0, Lambert))))

\* C5: with a sphere hit, a light and no other sphere on the shadow ray,
\* trace returns hit_color * (ambient + (0.5, 0.4, 0.5) * max(0, lambert));
\* with a negative lambert that is hit_color * ambient.
C5_Lit ==
    (Shaded /\ Occluders = {}) =>
        /\ tresult.color =
               VMul(HitSphere.color,
                    VAdd(tscene.ambient, VScale(Diffuse, FMax(0, Lambert))))
        /\ FLt(Lambert, 0) =>
               tresult.color = VMul(HitSphere.color, tscene.ambient)

\* One sphere, one light behind it: lambert is negative.
C5_Witness ==
    /\ Shaded /\ Occluders = {} /\ FLt(Lambert, 0)
    /\ Len(tscene.spheres) = 1 /\ Len(tscene.lights) = 1
    /\ tresult.color = VMul(HitSphere.color, tscene.ambient)

\* C6: with spheres and no light, trace returns the ambient colour, also
\* when the ray hits a sphere.
C6_NoLight ==
    (tpc = "done" /\ Len(tscene.lights) = 0 /\ Len(tscene.spheres) >= 1)
        => tresult.color = tscene.ambient

\* A sphere is hit, and its colour times the ambient is not the ambient.
C6_Witness ==
    /\ tpc = "done" /\ Len(tscene.lights) = 0 /\ Best.closest # 0
    /\ VMul(HitSphere.color, tscene.ambient) # tscene.ambient
    /\ tresult.color = tscene.ambient

\* The sphere of the smallest t among the spheres hit, the earliest of
\* them in the scene.
Nearest == {i \in Hits : \A j \in Hits : ~FLt(HitT(j), HitT(i))}
Earliest == CHOOSE i \in Nearest : \A j \in Nearest : i <= j

\* C10: trace shades the sphere with the smallest t among the spheres the
\* ray hits, a negative t included, the earliest in the scene among equal
\* ones; with no sphere hit it returns the ambient colour, whatever the
\* lights.
C10_Closest ==
    tpc = "done" =>
        IF Hits = {}
        THEN tresult = Ret(tscene.ambient, 186)
        ELSE /\ Nearest # {}
             /\ tresult = LightLoop(tscene, tray, tscene.spheres[Earliest],
                                    HitT(Earliest))

\* Two spheres of different colours hit at the same negative t, with a
\* light: shading the later one gives another colour.
C10_Witness ==
    /\ tpc = "done" /\ Len(tscene.lights) >= 1
    /\ \E i \in Hits, j \in Hits :
           /\ i < j /\ HitT(i) = HitT(j) /\ HitT(i) < 0
           /\ Nearest = {i, j}
           /\ LightLoop(tscene, tray, tscene.spheres[j], HitT(j)) # tresult

(***************************************************************************)
(* Scene::render: the claims.                                              *)
(***************************************************************************)
\* The put_pixel calls so far are those of the first pixels in row-major
\* order, one each, with the image holding what they wrote.
RowMajorSoFar ==
    /\ Len(writes) <= width * height
    /\ \A k \in 1..Len(writes) :
           /\ writes[k].x = (k - 1) % width
           /\ writes[k].y = (k - 1) \div width
           /\ writes[k].x < width /\ writes[k].y < height
           /\ img[<<writes[k].x, writes[k].y>>] = writes[k].rgb
    /\ pc = "loop" => Len(writes) = y * width + x

\* C1: render writes one RGB triple to every pixel of [0, width) x
\* [0, height), none twice and none outside, in row-major order, and
\* creates and saves the file only after the last pixel is written.
C1_RowMajorThenSink ==
    /\ RowMajorSoFar
    /\ (pc \in {"save", "done"} \/ file # "none")
           => Len(writes) = width * height
    /\ (pc = "panicked" /\ scene.camera \notin SingularCameras)
           => Len(writes) = width * height
    /\ file = "saved" <=> pc = "done"

C1_Witness ==
    /\ pc = "done" /\ file = "saved" /\ width = MaxDim /\ height = MaxDim
    /\ Len(writes) = MaxDim * MaxDim
    /\ writes[MaxDim + 1].x = 0 /\ writes[MaxDim + 1].y = 1

\* C2: with a camera transform that has no inverse and width, height >= 1,
\* render fails at the ray of pixel (0, 0): no pixel is written and the
\* file is neither created nor saved.
C2_FailsAtFirstRay ==
    /\ []((scene.camera \in SingularCameras /\ width >= 1 /\ height >= 1) =>
            /\ writes = <<>> /\ file = "none"
            /\ \A p \in DOMAIN img : img[p] = <<0, 0, 0>>
            /\ x = 0 /\ y = 0
            /\ pc \in {"loop", "panicked"})
    /\ [][(scene.camera \in SingularCameras /\ width >= 1 /\ height >= 1)
            => (pc' = "panicked" /\ writes' = <<>> /\ file' = "none")]_vars

C2_Witness ==
    /\ scene.camera \in SingularCameras /\ width >= 1 /\ height >= 1
    /\ pc = "panicked" /\ writes = <<>> /\ file = "none"

\* c, a non-negative finite value, truncated to an integer.
Truncated(c) == c \div Unit
\* trunc(255 * min(1, max(0, c)))
ClampedByte(c) == Truncated(FMul(Lit(255, 1), FMin(Lit(1, 1), FMax(0, c))))

\* C9: the byte written for a channel c of a traced colour is
\* trunc(255 * min(1, max(0, c))), within 0..255, for c in [0, 1], above 1
\* and below 0.
C9_ClampedBytes ==
    \A k \in 1..Len(writes) : \A ch \in 1..3 :
        ~IsNaN(writes[k].color[ch]) =>
            /\ writes[k].rgb[ch] = ClampedByte(writes[k].color[ch])
            /\ writes[k].rgb[ch] \in 0..255

\* One pixel with a channel above 1, one below 0 and one strictly between,
\* written as 255, 0 and a byte strictly between.
C9_Witness ==
    \E k \in 1..Len(writes) : \E a, b, c \in 1..3 :
        /\ writes[k].color[a] > Unit /\ IsFinite(writes[k].color[a])
        /\ writes[k].rgb[a] = 255
        /\ writes[k].color[b] < 0 /\ IsFinite(writes[k].color[b])
        /\ writes[k].rgb[b] = 0
        /\ writes[k].color[c] > 0 /\ writes[k].color[c] < Unit
        /\ writes[k].rgb[c] > 0 /\ writes[k].rgb[c] < 255

====
